---------------------------- MODULE Spec2Model ----------------------------
(***************************************************************************)
(* Model of the notebook gmm_ml_synthetic_speech_detection.ipynb:          *)
(*   - the ground-truth loading cell (filter by folder, sort),             *)
(*   - the training feature-extraction loop (k, y, features),              *)
(*   - the GMM-ML scoring loop (k, llr_gmm_score, z_gmm, vad) and the      *)
(*     columns and ROC AUC it derives,                                     *)
(*   - the EER computation cell (thr, humans, spoofed, fnr, fpr).          *)
(*                                                                         *)
(* Numbers.  Scores, log-likelihoods and thresholds are integers in units  *)
(* of 0.001 (thr = -.115 is -115).  The VAD ratio threshold is in units of *)
(* 0.001 too (.1 is 100, .08 is 80).  A value produced by a true division  *)
(* (fnr, fpr, the EER, the ROC AUC) is kept as the pair [num, den] of the  *)
(* division; den = 0 is numpy's nan (0/0 with a RuntimeWarning).           *)
(* File names are numbers (the data set's files are numbered).             *)
(***************************************************************************)
EXTENDS Integers, Sequences, FiniteSets, TLC

VARIABLES
    pc,             \* which cell / loop position the notebook is at
    exc,            \* the exception that ended the running cell, or "none"
    ground_truth,   \* the label table in use: rows [folder, file, source]
    z,              \* column ground_truth['z']
    col_z_gmm,      \* column ground_truth['z_gmm']
    col_score_gmm,  \* column ground_truth['score_gmm']
    wav,            \* the audio on disk: [folder, name] -> frame energies
    gmm_nat,        \* density model of natural speech
    gmm_synt,       \* density model of synthetic speech
    vad,            \* ratio_threshold of the current Energy_Thr preprocessor
    k,              \* running counter of both loops
    todo,           \* what the running loop has still to iterate over
    llr_gmm_score,  \* score array
    z_gmm,          \* hard-decision array
    nwrites,        \* history: how many times each score position was written
    scored_from,    \* history: the file each score position was computed from
    auc,            \* the printed roc_auc_score, or NoValue
    thr,            \* threshold of the EER cell
    fnr,            \* EER cell result
    fpr,            \* EER cell result
    eer,            \* the printed EER: [kind, value]
    searched,       \* history: thresholds the EER cell has been run with
    subfolders,     \* the selected folders (train_subfls / devel_subfls)
    n_subfls,       \* notebook global set by the scoring cell, read by training
    listing,        \* os.listdir of every folder: sequences of file names
    y,              \* training label array
    features        \* training feature list: [path, mfcc]

vars == <<pc, exc, ground_truth, z, col_z_gmm, col_score_gmm, wav, gmm_nat,
          gmm_synt, vad, k, todo, llr_gmm_score, z_gmm, nwrites, scored_from,
          auc, thr, fnr, fpr, eer, searched, subfolders, n_subfls, listing, y,
          features>>

-----------------------------------------------------------------------------
(* Bounds of the model *)

\* largest number of samples in a score set of the EER cell
MaxSamples == 4

\* score values (0.001): the example's 0.6, 0.4, -0.3, 0.1 and a separated pair
ScoreVals == {-1500, -300, 100, 400, 600, 1500}

\* thresholds the EER cell is run with: 0 and one above every score
Thresholds == {0, 2000}

\* largest number of rows of a label table
MaxRows == 3

\* speaker folders of the development and of the training set, file numbers
Folders == {"D1", "D2"}
TrainFolders == {"T1", "T2"}
Files == {1, 2}

\* selections of training folders (train_subfls)
TrainSelections == {<<>>, <<"T1">>, <<"T1", "T2">>}

\* os.listdir of a folder: file names (numbers, all ending in EXT), any order
Listings == {<<>>, <<1>>, <<1, 2>>, <<2, 1>>}

\* audio files: per-frame energies (0.001 of the peak).  <<90>> has no frame
\* above the default VAD ratio (.1) and one above the retry ratio (.08);
\* <<110, 90>> keeps one frame at .1 and two at .08.  A file with no speech
\* frame even at the retry ratio is left to the library and not modelled.
Utterances == {<<90>>, <<110, 90>>}

\* density models: [w, b], log-likelihood of a feature matrix = sum of w*e + b
Models == {[w |-> 1, b |-> 0], [w |-> 0, b |-> 100], [w |-> 0, b |-> 0]}

-----------------------------------------------------------------------------
(* Program constants *)

\* ratio_threshold=.1 of the scoring cell's vad and the retry's .08
DefaultRatio == 100
RetryRatio == 80

\* thr = .5 of the scoring cell
HardThr == 500

-----------------------------------------------------------------------------
(* Values of a true division *)

NoValue == [num |-> 0, den |-> -1]

NaN == [num |-> 0, den |-> 0]

\* numpy: a / b for an integer a and a length b; 0/0 is nan
TrueDiv(a, b) == [num |-> a, den |-> b]

IsNaN(r) == r.den = 0

RatAdd(a, b) ==
    IF IsNaN(a) \/ IsNaN(b) THEN NaN
    ELSE [num |-> a.num * b.den + b.num * a.den, den |-> a.den * b.den]

RatSub(a, b) ==
    IF IsNaN(a) \/ IsNaN(b) THEN NaN
    ELSE [num |-> a.num * b.den - b.num * a.den, den |-> a.den * b.den]

RatHalf(a) == IF IsNaN(a) THEN NaN ELSE [num |-> a.num, den |-> 2 * a.den]

RatAbs(a) == [num |-> IF a.num < 0 THEN -a.num ELSE a.num, den |-> a.den]

\* a < p/q; every comparison with nan is False
RatLt(a, p, q) == ~IsNaN(a) /\ a.num * q < p * a.den

\* a = b as numbers; nan equals nothing
RatEq(a, b) == ~IsNaN(a) /\ ~IsNaN(b) /\ a.num * b.den = b.num * a.den

\* a <= b as numbers
RatLeq(a, b) == ~IsNaN(a) /\ ~IsNaN(b) /\ a.num * b.den <= b.num * a.den

\* a = n for an integer n
RatIs(a, n) == ~IsNaN(a) /\ a.num = n * a.den

-----------------------------------------------------------------------------
(* The EER computation cell *)

\* the tolerance .25 of the cell, as TolNum / TolDen
TolNum == 25
TolDen == 100

RECURSIVE BoolIndex(_, _, _)
\* numpy boolean indexing arr[col == v]
BoolIndex(arr, col, v) ==
    IF arr = <<>> \/ col = <<>> THEN <<>>
    ELSE (IF Head(col) = v THEN <<Head(arr)>> ELSE <<>>)
         \o BoolIndex(Tail(arr), Tail(col), v)

\* (arr > t).sum()
SumGt(arr, t) == Cardinality({i \in DOMAIN arr : arr[i] > t})

\* (arr < t).sum()
SumLt(arr, t) == Cardinality({i \in DOMAIN arr : arr[i] < t})

\* (arr >= t).sum()
SumGeq(arr, t) == Cardinality({i \in DOMAIN arr : arr[i] >= t})

\* (arr <= t).sum()
SumLeq(arr, t) == Cardinality({i \in DOMAIN arr : arr[i] <= t})

\* variant of SpoofedOf: the mask of the next line copied (== 0 for both)
SpoofedOfSameMask(pz, zc) == BoolIndex(pz, zc, 0)

\* spoofed = pz[np.array(ground_truth.z)==1]
SpoofedOf(pz, zc) == BoolIndex(pz, zc, 1)

\* humans = pz[np.array(ground_truth.z)==0]
HumansOf(pz, zc) == BoolIndex(pz, zc, 0)

\* fnr = 100*(humans>thr).sum()/len(humans)
FnrOf(pz, zc, t) ==
    TrueDiv(100 * SumGt(HumansOf(pz, zc), t), Len(HumansOf(pz, zc)))

\* fpr = 100*(spoofed<=thr).sum()/len(spoofed)
FprOf(pz, zc, t) ==
    TrueDiv(100 * SumLeq(SpoofedOf(pz, zc), t), Len(SpoofedOf(pz, zc)))

\* variant of Within: np.abs left out, fnr-fpr < .25
WithinNoAbs(a, b) == RatLt(RatSub(a, b), TolNum, TolDen)

\* np.abs(fnr-fpr) < .25
Within(a, b) == RatLt(RatAbs(RatSub(a, b)), TolNum, TolDen)

\* (fnr+fpr)/2
EerValue(a, b) == RatHalf(RatAdd(a, b))

\* One run of the cell with thr set to t ("Adjust the threshold thr to reduce
\* FNR-FPR": the cell is edited and run again, any number of times).
EvalEER(t) ==
    /\ pc \in {"eer", "eer_done"}
    /\ thr' = t
    /\ fnr' = FnrOf(llr_gmm_score, z, t)
    /\ fpr' = FprOf(llr_gmm_score, z, t)
    /\ eer' = [kind  |-> IF Within(fnr', fpr') THEN "=" ELSE "~",
               value |-> EerValue(fnr', fpr')]
    /\ searched' = searched \cup {t}
    /\ pc' = "eer_done"
    /\ UNCHANGED <<exc, ground_truth, z, col_z_gmm, col_score_gmm, wav,
                   gmm_nat, gmm_synt, vad, k, todo, llr_gmm_score, z_gmm,
                   nwrites, scored_from, auc, subfolders, n_subfls, listing, y,
                   features>>

\* score sets of at most n samples: (score, z) pairs
RECURSIVE SeqsUpTo(_, _)
SeqsUpTo(S, n) ==
    IF n = 0 THEN {<<>>}
    ELSE LET shorter == SeqsUpTo(S, n - 1)
         IN  shorter \cup {Append(s, e) : s \in shorter, e \in S}

\* the row of the table a sample of the score set stands for
RowOf(i, label) ==
    [folder |-> "D1", file |-> i, source |-> IF label = 1 THEN "human" ELSE "spoof"]

\* The state the EER cell starts from: the scoring cell has filled the score
\* array and the z column (z = int(source == 'human')).
InitEER ==
    /\ \E samples \in SeqsUpTo(ScoreVals \X {0, 1}, MaxSamples) :
          /\ llr_gmm_score = [i \in DOMAIN samples |-> samples[i][1]]
          /\ z = [i \in DOMAIN samples |-> samples[i][2]]
          /\ ground_truth = [i \in DOMAIN samples |-> RowOf(i, samples[i][2])]
          /\ z_gmm = [i \in DOMAIN samples |-> IF samples[i][1] > 0 THEN 1 ELSE 0]
          /\ k = Len(samples)
    /\ col_z_gmm = z_gmm
    /\ col_score_gmm = llr_gmm_score
    /\ pc = "eer"
    /\ exc = "none"
    /\ wav = <<>>
    /\ gmm_nat = 0
    /\ gmm_synt = 0
    /\ vad = DefaultRatio
    /\ todo = <<>>
    /\ nwrites = <<>>
    /\ scored_from = <<>>
    /\ auc = NoValue
    /\ thr = HardThr
    /\ fnr = NoValue
    /\ fpr = NoValue
    /\ eer = [kind |-> "", value |-> NoValue]
    /\ searched = {}
    /\ subfolders = <<"D1">>
    /\ n_subfls = 1
    /\ listing = <<>>
    /\ y = <<>>
    /\ features = <<>>

NextEER == \E t \in Thresholds : EvalEER(t)

SpecEER == InitEER /\ [][NextEER]_vars

-----------------------------------------------------------------------------
(* Ground-truth loading cell *)

\* order of folder names as strings
FolderRank(f) ==
    CASE f = "D1" -> 1 [] f = "D2" -> 2 [] f = "T1" -> 3 [] f = "T2" -> 4
      [] OTHER -> 5

\* row a sorts before or with row b under ['folder', 'file']
RowLeq(a, b) ==
    \/ FolderRank(a.folder) < FolderRank(b.folder)
    \/ a.folder = b.folder /\ a.file <= b.file

RangeOf(s) == {s[i] : i \in DOMAIN s}

\* devel[devel.folder.isin(devel_subfls)], applied only if len(devel_subfls)
IsIn(table, subfls) ==
    IF Len(subfls) = 0 THEN table
    ELSE SelectSeq(table, LAMBDA r : r.folder \in RangeOf(subfls))

RECURSIVE InsertRow(_, _)
InsertRow(sorted, r) ==
    IF sorted = <<>> THEN <<r>>
    ELSE IF RowLeq(sorted[Len(sorted)], r) THEN Append(sorted, r)
    ELSE Append(InsertRow(SubSeq(sorted, 1, Len(sorted) - 1), r),
                sorted[Len(sorted)])

RECURSIVE SortRows(_)
SortRows(table) ==
    IF table = <<>> THEN <<>>
    ELSE InsertRow(SortRows(SubSeq(table, 1, Len(table) - 1)),
                   table[Len(table)])

\* variant of SortValues: the sort_values line left out
SortValuesOmitted(table) == table

\* devel.sort_values(['folder', 'file'], inplace=True)
SortValues(table) == SortRows(table)

\* The loading cell for the development table: filter, then sort.
LoadGroundTruth ==
    /\ pc = "load"
    /\ ground_truth' = SortValues(IsIn(ground_truth, subfolders))
    /\ pc' = "score_init"
    /\ UNCHANGED <<exc, z, col_z_gmm, col_score_gmm, wav, gmm_nat, gmm_synt,
                   vad, k, todo, llr_gmm_score, z_gmm, nwrites, scored_from,
                   auc, thr, fnr, fpr, eer, searched, subfolders, n_subfls, listing, y,
                   features>>

-----------------------------------------------------------------------------
(* Library calls of the loops: voice-activity detection, MFCC, GMM *)

\* vad(x): the frames of x the Energy_Thr preprocessor of ratio r labels speech
VadData(x, r) == SelectSeq(x, LAMBDA e : e >= r)

\* not vad_data[2].max(): no frame is labelled speech
NoSpeech(vd) == vd = <<>>

\* vad_data after the "if not vad_data[2].max()" retry
VadWithRetry(x, r) ==
    IF NoSpeech(VadData(x, r)) THEN VadData(x, RetryRatio) ELSE VadData(x, r)

\* variant of VadAfter: the restoring assignment left out
VadAfterNoRestore(x, r) ==
    IF NoSpeech(VadData(x, r)) THEN RetryRatio ELSE r

\* the ratio of vad when the iteration ends: the retry replaces vad and the
\* line after it puts a preprocessor of the default ratio back
VadAfter(x, r) ==
    IF NoSpeech(VadData(x, r)) THEN DefaultRatio ELSE r

\* mfcc = cepstrum(vad_data): one feature per speech frame
Cepstrum(vd) == vd

RECURSIVE SumSeq(_)
SumSeq(s) == IF s = <<>> THEN 0 ELSE Head(s) + SumSeq(Tail(s))

\* gmm(mfcc): the model's log-likelihood of the feature matrix
LogLikelihood(m, mfcc) == m.w * SumSeq(mfcc) + m.b * Len(mfcc)

\* variant of LlrScore: the magnitude of the difference
LlrScoreAbs(nat, synt, mfcc) ==
    IF LogLikelihood(nat, mfcc) >= LogLikelihood(synt, mfcc)
    THEN LogLikelihood(nat, mfcc) - LogLikelihood(synt, mfcc)
    ELSE LogLikelihood(synt, mfcc) - LogLikelihood(nat, mfcc)

\* gmm_nat(mfcc)-gmm_synt(mfcc)
LlrScore(nat, synt, mfcc) ==
    LogLikelihood(nat, mfcc) - LogLikelihood(synt, mfcc)

-----------------------------------------------------------------------------
(* GMM-ML scoring cell *)

Zeros(n) == [i \in 1..n |-> 0]

RECURSIVE Unique(_)
\* ground_truth.folder.unique(): values in order of first appearance
Unique(s) ==
    IF s = <<>> THEN <<>>
    ELSE LET u == Unique(SubSeq(s, 1, Len(s) - 1))
         IN  IF s[Len(s)] \in RangeOf(u) THEN u ELSE Append(u, s[Len(s)])

FolderColumn(table) == [i \in DOMAIN table |-> table[i].folder]

\* list(ground_truth[ground_truth.folder==speaker_id].file), with its folder
FList(table, speaker_id) ==
    LET rows == SelectSeq(table, LAMBDA r : r.folder = speaker_id)
    IN  [i \in DOMAIN rows |-> [folder |-> speaker_id, file |-> rows[i].file]]

RECURSIVE Flatten(_, _)
\* the files the two nested for loops visit, in order
Flatten(table, speaker_list) ==
    IF speaker_list = <<>> THEN <<>>
    ELSE FList(table, Head(speaker_list)) \o Flatten(table, Tail(speaker_list))

\* The cell up to the loops: arrays of zeros, the vad, k = 0, thr = .5.
ScoreInit ==
    /\ pc = "score_init"
    /\ llr_gmm_score' = Zeros(Len(ground_truth))
    /\ z_gmm' = Zeros(Len(ground_truth))
    /\ nwrites' = Zeros(Len(ground_truth))
    /\ scored_from' = Zeros(Len(ground_truth))
    /\ vad' = DefaultRatio
    /\ k' = 0
    /\ thr' = HardThr
    /\ todo' = Flatten(ground_truth, Unique(FolderColumn(ground_truth)))
    /\ pc' = "score_loop"
    /\ n_subfls' = Len(subfolders)
    /\ UNCHANGED <<exc, ground_truth, z, col_z_gmm, col_score_gmm, wav,
                   gmm_nat, gmm_synt, auc, fnr, fpr, eer, searched, subfolders,
                   listing, y, features>>

\* One iteration of the inner loop: read, VAD (with retry), MFCC, score.
ScoreFile ==
    /\ pc = "score_loop"
    /\ todo # <<>>
    /\ LET f    == Head(todo)
           x    == wav[f]
           mfcc == Cepstrum(VadWithRetry(x, vad))
           llr  == LlrScore(gmm_nat, gmm_synt, mfcc)
       IN  IF k + 1 \in DOMAIN llr_gmm_score
           THEN /\ llr_gmm_score' = [llr_gmm_score EXCEPT ![k + 1] = llr]
                /\ z_gmm' = [z_gmm EXCEPT ![k + 1] = IF llr > 0 THEN 1 ELSE 0]
                /\ nwrites' = [nwrites EXCEPT ![k + 1] = @ + 1]
                /\ scored_from' = [scored_from EXCEPT ![k + 1] = f]
                /\ vad' = VadAfter(x, vad)
                /\ k' = k + 1
                /\ todo' = Tail(todo)
                /\ UNCHANGED <<pc, exc>>
           ELSE /\ exc' = "IndexError"
                /\ pc' = "failed"
                /\ vad' = VadAfter(x, vad)
                /\ UNCHANGED <<llr_gmm_score, z_gmm, nwrites, scored_from, k,
                               todo>>
    /\ UNCHANGED <<ground_truth, z, col_z_gmm, col_score_gmm, wav, gmm_nat,
                   gmm_synt, auc, thr, fnr, fpr, eer, searched, subfolders, n_subfls,
                   listing, y, features>>

\* sklearn roc_auc_score(y_true, y_score): the share of (positive, negative)
\* pairs the score orders correctly, ties counting one half
RocAucScore(y_true, y_score) ==
    LET pos   == {i \in DOMAIN y_true : y_true[i] = 1}
        neg   == {i \in DOMAIN y_true : y_true[i] = 0}
        above == {p \in pos \X neg : y_score[p[1]] > y_score[p[2]]}
        ties  == {p \in pos \X neg : y_score[p[1]] = y_score[p[2]]}
    IN  TrueDiv(2 * Cardinality(above) + Cardinality(ties),
                2 * Cardinality(pos) * Cardinality(neg))

\* roc_auc_score raises ValueError when y_true holds one class only
OneClass(y_true) == Cardinality(RangeOf(y_true)) < 2

\* ground_truth.source.map(lambda x: int(x=='human'))
ZColumn(table) ==
    [i \in DOMAIN table |-> IF table[i].source = "human" THEN 1 ELSE 0]

\* After the loops: the three columns, then print(roc_auc_score(...)).
ScoreFinish ==
    /\ pc = "score_loop"
    /\ todo = <<>>
    /\ z' = ZColumn(ground_truth)
    /\ col_z_gmm' = z_gmm
    /\ col_score_gmm' = llr_gmm_score
    /\ IF OneClass(z')
       THEN auc' = auc /\ exc' = "ValueError" /\ pc' = "failed"
       ELSE auc' = RocAucScore(z', col_z_gmm') /\ exc' = exc /\ pc' = "scored"
    /\ UNCHANGED <<ground_truth, wav, gmm_nat, gmm_synt, vad, k, todo,
                   llr_gmm_score, z_gmm, nwrites, scored_from, thr, fnr, fpr,
                   eer, searched, subfolders, n_subfls, listing, y, features>>

\* the 0/1 decisions in the unit of the thresholds
Milli(arr) == [i \in DOMAIN arr |-> 1000 * arr[i]]

\* 100*(1-c/n)
OneMinusShare(c, n) == TrueDiv(100 * (n - c), n)

\* "# Performance evaluation" of the same cell, on the hard decisions z_gmm
\* with thr = .5.  z_dvl is assigned nowhere in the notebook; the recorded
\* output prints the same ROC AUC for (ground_truth.z, z_gmm) and
\* (z_dvl, z_gmm), and z_dvl is taken to be the z column.
PerfEval ==
    /\ pc = "scored"
    /\ LET z_dvl   == z
           humans  == BoolIndex(z_gmm, z_dvl, 0)
           spoofed == BoolIndex(z_gmm, z_dvl, 1)
       IN  /\ fnr' = OneMinusShare(SumLt(Milli(humans), thr), Len(humans))
           /\ fpr' = OneMinusShare(SumGeq(Milli(spoofed), thr), Len(spoofed))
           /\ auc' = RocAucScore(z_dvl, z_gmm)
    /\ eer' = [kind |-> "<=", value |-> EerValue(fnr', fpr')]
    /\ pc' = "perf_done"
    /\ UNCHANGED <<exc, ground_truth, z, col_z_gmm, col_score_gmm, wav,
                   gmm_nat, gmm_synt, vad, k, todo, llr_gmm_score, z_gmm,
                   nwrites, scored_from, thr, searched, subfolders, n_subfls, listing, y,
                   features>>

\* label tables as read from the protocol file: up to n rows, in any order
RECURSIVE TablesUpTo(_, _)
TablesUpTo(n, folders) ==
    IF n = 0 THEN {<<>>}
    ELSE LET shorter == TablesUpTo(n - 1, folders)
         IN  shorter \cup
             {Append(t, [folder |-> fo, file |-> fi, source |-> so]) :
                  t \in {u \in shorter : Len(u) = n - 1},
                  fo \in folders, fi \in Files, so \in {"human", "spoof"}}

\* no utterance is listed twice
DistinctFiles(t) ==
    \A i, j \in DOMAIN t :
        (t[i].folder = t[j].folder /\ t[i].file = t[j].file) => i = j

Paths == [folder : Folders, file : Files]

\* The state before the loading cell: the development table as read, the
\* selected folders, the audio on disk and the two trained models.
InitScore ==
    /\ ground_truth \in TablesUpTo(MaxRows, Folders)
    /\ subfolders \in {<<>>, <<"D1">>}
    /\ n_subfls = 0
    /\ wav \in [Paths -> Utterances]
    /\ gmm_nat \in Models
    /\ gmm_synt \in Models
    /\ pc = "load"
    /\ exc = "none"
    /\ z = <<>>
    /\ col_z_gmm = <<>>
    /\ col_score_gmm = <<>>
    /\ vad = DefaultRatio
    /\ k = 0
    /\ todo = <<>>
    /\ llr_gmm_score = <<>>
    /\ z_gmm = <<>>
    /\ nwrites = <<>>
    /\ scored_from = <<>>
    /\ auc = NoValue
    /\ thr = HardThr
    /\ fnr = NoValue
    /\ fpr = NoValue
    /\ eer = [kind |-> "", value |-> NoValue]
    /\ searched = {}
    /\ listing = <<>>
    /\ y = <<>>
    /\ features = <<>>

NextScore ==
    \/ LoadGroundTruth
    \/ ScoreInit
    \/ ScoreFile
    \/ ScoreFinish
    \/ PerfEval

Spec == InitScore /\ [][NextScore]_vars

-----------------------------------------------------------------------------
(* Training feature-extraction cell *)

\* label_2_class = {'human':1, 'spoof':0}
Label2Class(label) == IF label = "human" THEN 1 ELSE 0

\* subfolders[0:n_subfls]
Slice(s, n) == SubSeq(s, 1, IF n < Len(s) THEN n ELSE Len(s))

\* the files of os.listdir(folder), with their folder
DirList(folder) ==
    [i \in DOMAIN listing[folder] |->
        [folder |-> folder, file |-> listing[folder][i]]]

RECURSIVE Walk(_)
\* the files the two nested for loops visit, in order
Walk(folders) ==
    IF folders = <<>> THEN <<>>
    ELSE DirList(Head(folders)) \o Walk(Tail(folders))

\* ground_truth[ground_truth.file==f_name[:-len(EXT)]].source.values
SourceValues(table, f) ==
    LET rows == SelectSeq(table, LAMBDA r : r.file = f.file)
    IN  [i \in DOMAIN rows |-> rows[i].source]

\* The loading cell for the training table: filter, then sort.
LoadTrain ==
    /\ pc = "load_train"
    /\ ground_truth' = SortValues(IsIn(ground_truth, subfolders))
    /\ pc' = "train_init"
    /\ UNCHANGED <<exc, z, col_z_gmm, col_score_gmm, wav, gmm_nat, gmm_synt,
                   vad, k, todo, llr_gmm_score, z_gmm, nwrites, scored_from,
                   auc, thr, fnr, fpr, eer, searched, subfolders, n_subfls,
                   listing, y, features>>

\* The cell up to the loops: features = [], y of zeros, the vad, k = 0.
TrainInit ==
    /\ pc = "train_init"
    /\ features' = <<>>
    /\ y' = Zeros(Len(ground_truth))
    /\ vad' = DefaultRatio
    /\ k' = 0
    /\ todo' = Walk(Slice(subfolders, n_subfls))
    /\ pc' = "train_loop"
    /\ UNCHANGED <<exc, ground_truth, z, col_z_gmm, col_score_gmm, wav,
                   gmm_nat, gmm_synt, llr_gmm_score, z_gmm, nwrites,
                   scored_from, auc, thr, fnr, fpr, eer, searched, subfolders,
                   n_subfls, listing>>

\* One iteration of the inner loop: look the label up (skip the file when
\* .values[0] raises IndexError), write y[k], VAD (with retry), MFCC, append.
TrainFile ==
    /\ pc = "train_loop"
    /\ todo # <<>>
    /\ LET f      == Head(todo)
           values == SourceValues(ground_truth, f)
           x      == wav[f]
           mfcc   == Cepstrum(VadWithRetry(x, vad))
       IN  IF values = <<>>
           THEN /\ todo' = Tail(todo)
                /\ UNCHANGED <<pc, exc, y, features, k, vad>>
           ELSE IF k + 1 \in DOMAIN y
           THEN /\ y' = [y EXCEPT ![k + 1] = Label2Class(values[1])]
                /\ features' = Append(features, [path |-> f, mfcc |-> mfcc])
                /\ vad' = VadAfter(x, vad)
                /\ k' = k + 1
                /\ todo' = Tail(todo)
                /\ UNCHANGED <<pc, exc>>
           ELSE /\ exc' = "IndexError"
                /\ pc' = "failed"
                /\ UNCHANGED <<y, features, k, vad, todo>>
    /\ UNCHANGED <<ground_truth, z, col_z_gmm, col_score_gmm, wav, gmm_nat,
                   gmm_synt, llr_gmm_score, z_gmm, nwrites, scored_from, auc,
                   thr, fnr, fpr, eer, searched, subfolders, n_subfls,
                   listing>>

\* After the loops: Xf = np.array(features) and the print of k.
TrainFinish ==
    /\ pc = "train_loop"
    /\ todo = <<>>
    /\ pc' = "train_done"
    /\ UNCHANGED <<exc, ground_truth, z, col_z_gmm, col_score_gmm, wav,
                   gmm_nat, gmm_synt, vad, k, todo, llr_gmm_score, z_gmm,
                   nwrites, scored_from, auc, thr, fnr, fpr, eer, searched,
                   subfolders, n_subfls, listing, y, features>>

TrainPaths == [folder : TrainFolders, file : Files]

\* The state before the training table is loaded: the table as read, the
\* selected folders, n_subfls as an earlier run of the scoring cell left it,
\* the directory listings and the audio on disk.
InitTrain ==
    /\ ground_truth \in
           {t \in TablesUpTo(MaxRows, TrainFolders) : DistinctFiles(t)}
    /\ subfolders \in TrainSelections
    /\ n_subfls \in {1, 2}
    /\ listing \in [TrainFolders -> Listings]
    /\ \E u \in [Files -> Utterances] :
           wav = [p \in TrainPaths |-> u[p.file]]
    /\ pc = "load_train"
    /\ exc = "none"
    /\ z = <<>>
    /\ col_z_gmm = <<>>
    /\ col_score_gmm = <<>>
    /\ gmm_nat = [w |-> 0, b |-> 0]
    /\ gmm_synt = [w |-> 0, b |-> 0]
    /\ vad = DefaultRatio
    /\ k = 0
    /\ todo = <<>>
    /\ llr_gmm_score = <<>>
    /\ z_gmm = <<>>
    /\ nwrites = <<>>
    /\ scored_from = <<>>
    /\ auc = NoValue
    /\ thr = HardThr
    /\ fnr = NoValue
    /\ fpr = NoValue
    /\ eer = [kind |-> "", value |-> NoValue]
    /\ searched = {}
    /\ y = <<>>
    /\ features = <<>>

NextTrain ==
    \/ LoadTrain
    \/ TrainInit
    \/ TrainFile
    \/ TrainFinish

SpecTrain == InitTrain /\ [][NextTrain]_vars

-----------------------------------------------------------------------------
(* Properties of the EER computation cell, checked under SpecEER *)

\* positions of the table whose true label is human / spoof
HumanIdx == {i \in DOMAIN ground_truth : ground_truth[i].source = "human"}
SpoofIdx == {i \in DOMAIN ground_truth : ground_truth[i].source = "spoof"}

BothClasses == HumanIdx # {} /\ SpoofIdx # {}

HumanLeq(t) == Cardinality({i \in HumanIdx : llr_gmm_score[i] <= t})
SpoofGt(t) == Cardinality({i \in SpoofIdx : llr_gmm_score[i] > t})

\* C1: with both classes non-empty, the cell's fnr is 100 * (human-labeled
\* samples with score <= thr) / (human-labeled samples) and its fpr is
\* 100 * (spoof-labeled samples with score > thr) / (spoof-labeled samples);
\* for h1=0.6, h2=0.4 (human), s1=-0.3, s2=0.1 (spoof) at threshold 0 it is
\* fnr = 0 and fpr = 50.
C1_EstimateRates ==
    (pc = "eer_done" /\ BothClasses) =>
        /\ RatEq(fnr, TrueDiv(100 * HumanLeq(thr), Cardinality(HumanIdx)))
        /\ RatEq(fpr, TrueDiv(100 * SpoofGt(thr), Cardinality(SpoofIdx)))
        /\ (/\ llr_gmm_score = <<600, 400, -300, 100>>
            /\ z = <<1, 1, 0, 0>>
            /\ thr = 0) => (RatIs(fnr, 0) /\ RatIs(fpr, 50))

\* C2: for a fixed score set with both classes non-empty, a run of the cell at
\* a threshold at least as large as the previous run's never decreases fnr and
\* never increases fpr.
C2_Monotone ==
    [][(pc = "eer_done" /\ pc' = "eer_done" /\ BothClasses /\ thr <= thr')
          => (RatLeq(fnr, fnr') /\ RatLeq(fpr', fpr))]_vars

\* |fnr - fpr| of the score set at threshold t, from the labels and scores
GapAt(t) ==
    RatAbs(RatSub(TrueDiv(100 * SpoofGt(t), Cardinality(SpoofIdx)),
                  TrueDiv(100 * HumanLeq(t), Cardinality(HumanIdx))))

\* C3 as stated: the reported EER is taken at the searched threshold that
\* minimises |fnr - fpr|, and it is reported as exact iff that minimum is
\* below the tolerance.
C3_MinimisingThreshold ==
    (pc = "eer_done" /\ BothClasses) =>
        /\ \A t \in searched : RatLeq(GapAt(thr), GapAt(t))
        /\ (eer.kind = "=") <=>
               (\E t \in searched : RatLt(GapAt(t), TolNum, TolDen))

\* C3 amended: the cell reports (fnr + fpr) / 2 at the threshold thr it was
\* last run with, as "EER =" iff |fnr - fpr| at that threshold is below 0.25
\* and as "EER ~" otherwise; no exception is raised either way.
C3_ReportAtCurrentThreshold ==
    (pc = "eer_done" /\ BothClasses) =>
        /\ RatEq(eer.value,
                 [num |-> 100 * SpoofGt(thr) * Cardinality(HumanIdx)
                          + 100 * HumanLeq(thr) * Cardinality(SpoofIdx),
                  den |-> 2 * Cardinality(HumanIdx) * Cardinality(SpoofIdx)])
        /\ (eer.kind = "=") <=> RatLt(GapAt(thr), TolNum, TolDen)
        /\ eer.kind \in {"=", "~"}
        /\ exc = "none"

\* C3 witness: a second run whose gap is not below the tolerance is reported as
\* an approximation although an earlier run was exact.
C3_Witness ==
    /\ pc = "eer_done"
    /\ BothClasses
    /\ eer.kind = "~"
    /\ \E t \in searched : RatLt(GapAt(t), TolNum, TolDen)

\* C4: with no human-labeled or no spoof-labeled sample the cell fails with
\* EmptyClassError and yields no nan (or any other) fnr / fpr.
C4_EmptyClassError ==
    (pc = "eer_done" /\ ~BothClasses) =>
        /\ exc = "EmptyClassError"
        /\ ~IsNaN(fnr)
        /\ ~IsNaN(fpr)

\* every human-labeled score > 1 and every spoof-labeled score < -1
Separated ==
    /\ BothClasses
    /\ \A i \in HumanIdx : llr_gmm_score[i] > 1000
    /\ \A i \in SpoofIdx : llr_gmm_score[i] < -1000

\* t lies between the classes
Between(t) ==
    /\ \A i \in HumanIdx : llr_gmm_score[i] > t
    /\ \A i \in SpoofIdx : llr_gmm_score[i] <= t

\* C8 as stated: on perfectly separated classes, once the searched thresholds
\* contain one between the classes the reported EER is 0 and exact.
C8_SeparatedSearch ==
    (pc = "eer_done" /\ Separated /\ \E t \in searched : Between(t)) =>
        /\ RatIs(eer.value, 0)
        /\ eer.kind = "="

\* C8 amended: on perfectly separated classes, a run of the cell at a threshold
\* between the classes gives fnr = 0, fpr = 0, EER 0, reported as exact.
C8_SeparatedAtThreshold ==
    (pc = "eer_done" /\ Separated /\ Between(thr)) =>
        /\ RatIs(fnr, 0)
        /\ RatIs(fpr, 0)
        /\ RatIs(eer.value, 0)
        /\ eer.kind = "="

\* C8 witness: two samples per class, separated, run at threshold 0
C8_Witness ==
    /\ pc = "eer_done"
    /\ Separated
    /\ Cardinality(HumanIdx) = 2
    /\ Cardinality(SpoofIdx) = 2
    /\ thr = 0
    /\ Between(thr)

-----------------------------------------------------------------------------
(* Properties of the loading and scoring cells, checked under Spec *)

\* the loops have been entered
InLoop == pc \in {"score_loop", "scored", "perf_done", "failed"}

\* the loops are over
LoopDone == pc \in {"scored", "perf_done", "failed"}

\* the feature matrix of file f, extracted with a preprocessor of the
\* default ratio whatever was processed before
FeaturesOf(f) ==
    LET atDefault == SelectSeq(wav[f], LAMBDA e : e >= DefaultRatio)
        atRetry   == SelectSeq(wav[f], LAMBDA e : e >= RetryRatio)
    IN  IF atDefault = <<>> THEN atRetry ELSE atDefault

\* C5: every recorded score is natural.log_likelihood(F) minus
\* synthetic.log_likelihood(F) of the utterance's feature matrix F, and the
\* score with the two models swapped is its negation.
C5_ScoreAntisymmetric ==
    InLoop =>
        \A i \in 1..k :
            LET F == FeaturesOf(scored_from[i])
            IN  /\ llr_gmm_score[i] =
                       LogLikelihood(gmm_nat, F) - LogLikelihood(gmm_synt, F)
                /\ llr_gmm_score[i] = -LlrScore(gmm_synt, gmm_nat, F)

\* C5 witness: a negative score has been recorded under two different models
C5_Witness ==
    /\ InLoop
    /\ gmm_nat # gmm_synt
    /\ \E i \in 1..k : llr_gmm_score[i] < 0

\* what the scoring of file f computes from the two models and the file alone
ScoreOfInput(f) ==
    LogLikelihood(gmm_nat, FeaturesOf(f))
        - LogLikelihood(gmm_synt, FeaturesOf(f))

\* C6: the score recorded for an utterance depends on the two models and the
\* utterance's audio only, not on the utterances processed before it, and the
\* VAD ratio is back at its default before the next utterance is processed.
C6_ScorePure ==
    /\ pc = "score_loop" => vad = DefaultRatio
    /\ InLoop => \A i \in 1..k : llr_gmm_score[i] = ScoreOfInput(scored_from[i])

\* C6 witness: an utterance that needed the retry was scored before one whose
\* speech frames differ between the default and the retry ratio, and the
\* latter's score differs between the two ratios.
C6_Witness ==
    /\ InLoop
    /\ \E i, j \in 1..k :
          /\ i < j
          /\ wav[scored_from[i]] = <<90>>
          /\ wav[scored_from[j]] = <<110, 90>>
          /\ llr_gmm_score[j] #
                 LogLikelihood(gmm_nat, <<110, 90>>)
                     - LogLikelihood(gmm_synt, <<110, 90>>)

\* the table is in (folder, file) order
SortedTable ==
    \A i, j \in DOMAIN ground_truth :
        i < j =>
            \/ FolderRank(ground_truth[i].folder)
                   < FolderRank(ground_truth[j].folder)
            \/ /\ ground_truth[i].folder = ground_truth[j].folder
               /\ ground_truth[i].file <= ground_truth[j].file

\* C7: when the loops are over, k is the number of rows of the table, every
\* position of the score array was written exactly once, position i holds the
\* score of the file named in row i of the (folder, file)-sorted table, and
\* the score_gmm and z columns pair that score with that row's label.
C7_OneScorePerRow ==
    LoopDone =>
        /\ k = Len(ground_truth)
        /\ SortedTable
        /\ DOMAIN llr_gmm_score = DOMAIN ground_truth
        /\ \A i \in DOMAIN ground_truth :
              /\ nwrites[i] = 1
              /\ scored_from[i] = [folder |-> ground_truth[i].folder,
                                   file   |-> ground_truth[i].file]
              /\ col_score_gmm[i] = ScoreOfInput(scored_from[i])
              /\ z[i] = IF ground_truth[i].source = "human" THEN 1 ELSE 0

\* C7 witness: a three-row table over two folders has been scored
C7_Witness ==
    /\ pc = "scored"
    /\ Len(ground_truth) = 3
    /\ ground_truth[1].folder # ground_truth[3].folder
    /\ k = 3

\* every human-labeled score is strictly greater than every spoof-labeled one
RankSeparated ==
    /\ BothClasses
    /\ \A i \in HumanIdx : \A j \in SpoofIdx :
           llr_gmm_score[i] > llr_gmm_score[j]

\* C9: the printed ROC AUC is the rank-based AUC of the llr scores: it is 1.0
\* whenever every human-labeled score is above every spoof-labeled score,
\* wherever the gap lies relative to 0.
C9_AucOfScores ==
    (pc \in {"scored", "perf_done"} /\ RankSeparated) => RatIs(auc, 1)

-----------------------------------------------------------------------------
(* Properties of the training feature-extraction loop, checked under SpecTrain *)

\* the rows of the table for the file at path f
RowsFor(f) ==
    {i \in DOMAIN ground_truth :
        ground_truth[i].folder = f.folder /\ ground_truth[i].file = f.file}

\* C10: the write y[k] is never out of bounds; a file with no ground-truth row
\* is skipped, leaving k, y and the feature list unchanged; and when the loop
\* ends the feature list has k entries and y[i] is the class of the file whose
\* features are at position i, for every i < k.
C10_TrainingLoop ==
    /\ exc # "IndexError"
    /\ pc \in {"train_loop", "train_done"} =>
          /\ Len(features) = k
          /\ k <= Len(y)
          /\ \A i \in 1..k :
                /\ RowsFor(features[i].path) # {}
                /\ \A r \in RowsFor(features[i].path) :
                      y[i] = IF ground_truth[r].source = "human" THEN 1 ELSE 0

=============================================================================
